---- MODULE Spec2Model ----
(***************************************************************************)
(* Model of the markdown editor's asynchronous pipeline:                   *)
(*   - the debounced render scheduler (createDebouncedParser) and the      *)
(*     Preview component that uses it,                                     *)
(*   - the throttled autosave hook (useThrottledAutosave),                 *)
(*   - the editor page (Home) with its local persistence store,            *)
(*   - the remote document client with its primary/fallback protocol,      *)
(*   - the cloud orchestrator (useCloudSync) with overlapping operations.  *)
(*                                                                         *)
(* Time is discrete.  A timer set with setTimeout carries the number of    *)
(* ticks left until it is due; a due timer fires before time advances.     *)
(* Strings are sequences of one-character strings.                         *)
(***************************************************************************)
EXTENDS Integers, Sequences, FiniteSets, Bags, TLC

VARIABLES
    timers,          \* the browser's table of pending setTimeout timers
    \* --- one scheduler returned by createDebouncedParser -------------
    timeoutId,       \* the closure variable timeoutId
    sinceSubmit,     \* ticks since the last submit, capped at DebounceDelay
    burstSubmits,    \* markdown values submitted in the current burst
    burstSink,       \* HTML values the callback received in the current burst
    \* --- the Preview component ---------------------------------------
    pvMounted,       \* the component has rendered at least once
    markdown,        \* the markdown prop of the latest render
    htmlContent,     \* useState htmlContent
    pvIsLoading,     \* useState isLoading
    pvDirty,         \* a state update is waiting for its re-render
    lastDelivery,    \* the last call of the sink: html and the prop at that time
    \* --- the useThrottledAutosave hook --------------------------------
    asPhase,         \* "new", "mounted" or "unmounted"
    value,           \* the tracked value of the latest render
    enabled,         \* the enabled option of the latest render
    saveFunction,    \* the callback passed by the latest render (its identity)
    timeoutRef,      \* timeoutRef.current
    lastSavedRef,    \* lastSavedRef.current
    isFirstRenderRef, \* isFirstRenderRef.current
    saveFunctionRef, \* saveFunctionRef.current
    hasCleanup,      \* the last run of the autosave effect returned a cleanup
    sinceChange,     \* ticks since the tracked value last changed, capped
    changed,         \* the tracked value has changed since the first render
    asEvent,         \* the operation the hook performed last
    invoked,         \* the calls of the save callback made by that operation
    \* --- the editor page (Home) and its local persistence store ------
    localStorage,    \* the durable item under the key 'markdown-content'
    writeFailed,     \* a durable write has failed since the content last changed
    uncaught,        \* the last step of the page ended in an exception nobody caught
    \* --- a component that keeps a string in useLocalStorage ------------
    stPhase,         \* "new" or "mounted"
    storedValue,     \* useState storedValue, as the latest render sees it
    stQueued,        \* the state update waiting for the next render, if any
    stReference,     \* what a plain useState would hold after the same updates
    stLast,          \* the last call: the mount or a call of the setter
    \* --- the remote document client ----------------------------------
    calls,           \* the invocations of client operations, by invocation
    now,             \* the wall clock, in ticks
    \* --- the cloud orchestrator (useCloudSync) and the CloudSync panel -
    pendingOps,      \* the orchestrator operations in flight (a bag)
    isLoading,       \* useState isLoading
    error,           \* useState error
    cloudDocuments,  \* useState cloudDocuments
    lastSyncTime,    \* useState lastSyncTime
    editorContent,   \* the page's markdown state, which the panel's loads replace
    lastSettled,     \* the orchestrator operation that completed last, with its result
    \* --- the CloudSync panel -------------------------------------------
    isOpen,          \* useState isOpen
    notification,    \* useState notification: <<>> or one record
    errorTimer,      \* the timer the last run of the error effect set, or Null
    panelEvent,      \* the handler or callback of the panel that ran last
    \* --- the renderer alone --------------------------------------------
    parsed           \* the last call of parseMarkdown and what it returned

dbVars == <<timeoutId, sinceSubmit, burstSubmits, burstSink>>
pvVars == <<pvMounted, markdown, htmlContent, pvIsLoading, pvDirty, lastDelivery>>
asVars == <<asPhase, value, enabled, saveFunction, timeoutRef, lastSavedRef,
           isFirstRenderRef, saveFunctionRef, hasCleanup, sinceChange, changed,
           asEvent, invoked>>
homeVars == <<localStorage, writeFailed, uncaught>>
apiVars == <<calls, now>>
syncVars == <<pendingOps, isLoading, error, cloudDocuments, lastSyncTime,
             editorContent, lastSettled>>
storeVars == <<stPhase, storedValue, stQueued, stReference, stLast>>
panelVars == <<isOpen, notification, errorTimer, panelEvent>>
parseVars == <<parsed>>
vars == <<timers, dbVars, pvVars, asVars, homeVars, apiVars, syncVars, storeVars,
         panelVars, parseVars>>

\* what the operations of one component leave alone
dbFrame ==
    <<pvVars, asVars, homeVars, apiVars, syncVars, storeVars,
      panelVars, parseVars>>
pvFrame ==
    <<dbVars, asVars, homeVars, apiVars, syncVars, storeVars,
      panelVars, parseVars>>
asFrame ==
    <<dbVars, pvVars, homeVars, apiVars, syncVars, storeVars,
      panelVars, parseVars>>
homeFrame ==
    <<dbVars, pvVars, apiVars, syncVars, storeVars,
      panelVars, parseVars>>
apiFrame ==
    <<timers, dbVars, pvVars, asVars, homeVars, syncVars, storeVars,
      panelVars, parseVars>>
syncFrame ==
    <<timers, dbVars, pvVars, asVars, homeVars, calls, storeVars,
      panelVars, parseVars>>
storeFrame ==
    <<timers, dbVars, pvVars, asVars, writeFailed, uncaught, apiVars, syncVars,
      panelVars, parseVars>>

panelFrame == <<dbVars, pvVars, asVars, homeVars, calls, storeVars, parseVars>>
parseFrame ==
    <<timers, dbVars, pvVars, asVars, homeVars, apiVars, syncVars, storeVars,
      panelVars>>

(***************************************************************************)
(* Bounds of the model.                                                    *)
(***************************************************************************)
DebounceDelay == 2     \* the debounce delay D, in ticks
MaxBurst == 3          \* submits followed within one burst
MaxTimers == 3         \* pending timers the Preview model follows
AutosaveDelay == 2     \* the autosave delay D, in ticks
MaxCalls == 2          \* client invocations that can overlap
MaxArg == 2            \* document ids and list limits range over 1..MaxArg
MaxNow == 2            \* the wall clock runs from 1 to MaxNow
NotificationDelay == 2 \* the display time of an error notification, in ticks
MaxTokens == 2         \* the tokens of a markdown source given to the renderer

Null == 0              \* JavaScript null; timer ids are positive
PreviewLength == 100   \* the characters of a body a list preview keeps

(***************************************************************************)
(* Markdown sources and the renderer.                                      *)
(***************************************************************************)
Empty == <<>>
MdHi == <<"#", " ", "H", "i">>
MdText == <<"a">>
MdQuote == <<"a", "\"">>
MarkdownValues == {Empty, MdHi, MdText, MdQuote}

\* marked escapes the characters that are special in HTML text
EscapeHtmlChar(c) ==
    IF c = "\"" THEN <<"&quot;">>
    ELSE IF c = "<" THEN <<"&lt;">>
    ELSE IF c = ">" THEN <<"&gt;">>
    ELSE <<c>>

RECURSIVE EscapeHtml(_)
EscapeHtml(s) ==
    IF s = <<>> THEN <<>> ELSE EscapeHtmlChar(Head(s)) \o EscapeHtml(Tail(s))

\* raw HTML that marked passes through: each element is one token of the
\* source, written in full
ScriptElement == "<script>x</script>"
ImgElement == "<img src=x onerror=y>"
DivElement == "<div data-id=1 aria-label=z>d</div>"
AnchorElement == "<a href=h onclick=c>t</a>"
HtmlElements == {ScriptElement, ImgElement, DivElement, AnchorElement}

Attr(name, family) == [name |-> name, family |-> family]

\* the element a token of raw HTML denotes; the family of an attribute is
\* the prefix of its name: on (event handler), data-, aria-, or none of them
HtmlElement(token) ==
    CASE token = ScriptElement ->
           [tag |-> "script", attrs |-> {}, text |-> <<"x">>]
      [] token = ImgElement ->
           [tag |-> "img", attrs |-> {Attr("src", "plain"), Attr("onerror", "event")},
            text |-> <<>>]
      [] token = DivElement ->
           [tag |-> "div", attrs |-> {Attr("data-id", "data"), Attr("aria-label", "aria")},
            text |-> <<"d">>]
      [] token = AnchorElement ->
           [tag |-> "a", attrs |-> {Attr("href", "plain"), Attr("onclick", "event")},
            text |-> <<"t">>]

TextNode(text) == [tag |-> "#text", attrs |-> {}, text |-> text]

\* adjacent text is one run of characters in the serialized string
MergeText(first, rest) ==
    IF rest # <<>> /\ first.tag = "#text" /\ rest[1].tag = "#text"
    THEN <<TextNode(first.text \o rest[1].text)>> \o Tail(rest)
    ELSE <<first>> \o rest

\* the inline content of a block: escaped text and the raw HTML elements
RECURSIVE Inline(_)
Inline(s) ==
    IF s = <<>> THEN <<>>
    ELSE IF Head(s) \in HtmlElements
    THEN <<HtmlElement(Head(s))>> \o Inline(Tail(s))
    ELSE MergeText(TextNode(EscapeHtmlChar(Head(s))), Inline(Tail(s)))

\* the elements that start an HTML block when a line begins with them
BlockLevelTags == {"script", "div"}

\* marked.parse on a one-block source: an ATX heading, an HTML block, which
\* is passed through without a wrapper, or a paragraph
markedParse(md) ==
    IF Len(md) >= 2 /\ md[1] = "#" /\ md[2] = " "
    THEN <<[tag |-> "h1", children |-> Inline(SubSeq(md, 3, Len(md)))]>>
    ELSE IF /\ md # <<>> /\ md[1] \in HtmlElements
            /\ HtmlElement(md[1]).tag \in BlockLevelTags
    THEN <<[tag |-> "#html", children |-> Inline(md)]>>
    ELSE <<[tag |-> "p", children |-> Inline(md)]>>

ALLOWED_TAGS ==
    {"h1", "h2", "h3", "h4", "h5", "h6", "p", "br", "strong", "em", "u", "del",
     "s", "a", "img", "ul", "ol", "li", "blockquote", "pre", "code", "table",
     "thead", "tbody", "tr", "th", "td", "hr", "div", "span"}

ALLOWED_ATTR == {"href", "title", "alt", "src", "id", "class", "target", "rel"}

ALLOW_DATA_ATTR == FALSE

\* purifyConfig does not set ALLOW_ARIA_ATTR, so DOMPurify's default holds
ALLOW_ARIA_ATTR == TRUE

KEEP_CONTENT == TRUE

\* DOMPurify's test of an attribute under purifyConfig
AttrAllowed(attr) ==
    \/ attr.name \in ALLOWED_ATTR
    \/ ALLOW_DATA_ATTR /\ attr.family = "data"
    \/ ALLOW_ARIA_ATTR /\ attr.family = "aria"

\* DOMPurify.sanitize on one element: an allowed element keeps its allowed
\* attributes; with KEEP_CONTENT a disallowed element is replaced by its
\* text content
sanitizeNode(n) ==
    IF n.tag = "#text" THEN <<n>>
    ELSE IF n.tag \in ALLOWED_TAGS
    THEN <<[n EXCEPT !.attrs = {attr \in @ : AttrAllowed(attr)}]>>
    ELSE IF KEEP_CONTENT /\ n.text # <<>> THEN <<TextNode(n.text)>>
    ELSE <<>>

RECURSIVE sanitizeInline(_)
sanitizeInline(nodes) ==
    IF nodes = <<>> THEN <<>>
    ELSE LET first == sanitizeNode(Head(nodes))
             rest == sanitizeInline(Tail(nodes))
         IN IF first = <<>> THEN rest ELSE MergeText(first[1], rest)

sanitize(html) ==
    [i \in 1..Len(html) |-> [html[i] EXCEPT !.children = sanitizeInline(@)]]

\* the values parseMarkdown can be called with: a string or, at run time,
\* a value of another type
StringInput(md) == [type |-> "string", value |-> md]

NonStringInputs == {[type |-> t, value |-> <<>>] : t \in {"null", "undefined", "number"}}

\* '<p>Error parsing markdown content.</p>'
ErrorFragment ==
    <<[tag |-> "p", children |-> <<TextNode(<<"Error parsing markdown content.">>)>>]>>

\* what the two library calls of one parseMarkdown call do
ParseOutcomes == {"ok", "markedThrows", "sanitizeThrows"}

\* a mutant of parseMarkdownWith: the parser output is returned as it is
parseMarkdownUnsanitized(input, outcome) ==
    IF input.type # "string" \/ input.value = Empty
    THEN [raised |-> FALSE, value |-> <<>>]
    ELSE IF outcome # "ok" THEN [raised |-> FALSE, value |-> ErrorFragment]
    ELSE [raised |-> FALSE, value |-> markedParse(input.value)]

\* a mutant of parseMarkdownWith: the library calls are outside the try block
parseMarkdownWithoutTry(input, outcome) ==
    IF input.type # "string" \/ input.value = Empty
    THEN [raised |-> FALSE, value |-> <<>>]
    ELSE IF outcome # "ok" THEN [raised |-> TRUE, value |-> <<>>]
    ELSE [raised |-> FALSE, value |-> sanitize(markedParse(input.value))]

\* parseMarkdown on an input, for an outcome of its library calls: the
\* guard, the try block and the catch block
parseMarkdownWith(input, outcome) ==
    IF input.type # "string" \/ input.value = Empty
    THEN [raised |-> FALSE, value |-> <<>>]
    ELSE IF outcome # "ok" THEN [raised |-> FALSE, value |-> ErrorFragment]
    ELSE [raised |-> FALSE, value |-> sanitize(markedParse(input.value))]

\* parseMarkdown on a string whose parsing and sanitizing succeed
parseMarkdown(md) == parseMarkdownWith(StringInput(md), "ok").value

(***************************************************************************)
(* The timer table: setTimeout and clearTimeout.                           *)
(***************************************************************************)
TimerIds(ts) == {t.id : t \in ts}

\* a timer id that is neither pending nor held by a reference
FreshId(ts, held) ==
    CHOOSE i \in 1..(Cardinality(TimerIds(ts) \cup held) + 1) :
        i \notin (TimerIds(ts) \cup held)

clearTimeout(ts, id) == {t \in ts : t.id # id}

setTimeout(ts, id, delay, arg) ==
    ts \cup {[id |-> id, left |-> delay, arg |-> arg]}

Due(ts) == {t \in ts : t.left = 0}

Elapse(ts) == {[t EXCEPT !.left = t.left - 1] : t \in ts}

(***************************************************************************)
(* createDebouncedParser: the returned function, applied to the closure    *)
(* variable tid and the timer table ts; it yields the new values of both.  *)
(***************************************************************************)
DebouncedParserNoClear(tid, ts, md) ==
    LET id == FreshId(ts, {tid})
    IN  [timers |-> setTimeout(ts, id, DebounceDelay, md), timeoutId |-> id]

DebouncedParser(tid, ts, md) ==
    LET cleared == IF tid # Null THEN clearTimeout(ts, tid) ELSE ts
        id == FreshId(cleared, {tid})
    IN  [timers |-> setTimeout(cleared, id, DebounceDelay, md), timeoutId |-> id]

Last(s) == s[Len(s)]

(***************************************************************************)
(* One scheduler used on its own: submit, the timer callback, time.        *)
(***************************************************************************)
DbSubmit(md) ==
    /\ sinceSubmit < DebounceDelay => Len(burstSubmits) < MaxBurst
    /\ LET r == DebouncedParser(timeoutId, timers, md)
       IN  /\ timers' = r.timers
           /\ timeoutId' = r.timeoutId
    /\ IF sinceSubmit < DebounceDelay /\ burstSubmits # <<>>
       THEN /\ burstSubmits' = Append(burstSubmits, md)
            /\ burstSink' = burstSink
       ELSE /\ burstSubmits' = <<md>>
            /\ burstSink' = <<>>
    /\ sinceSubmit' = 0
    /\ UNCHANGED dbFrame

DbFire ==
    /\ \E t \in Due(timers) :
         /\ timers' = timers \ {t}
         /\ burstSink' = Append(burstSink, parseMarkdown(t.arg))
    /\ Len(burstSink) < MaxBurst
    /\ UNCHANGED <<timeoutId, sinceSubmit, burstSubmits, dbFrame>>

DbTick ==
    /\ Due(timers) = {}
    /\ timers' = Elapse(timers)
    /\ sinceSubmit' = IF sinceSubmit < DebounceDelay THEN sinceSubmit + 1 ELSE sinceSubmit
    /\ UNCHANGED <<timeoutId, burstSubmits, burstSink, dbFrame>>

NoItem == [present |-> FALSE, text |-> <<>>]

CallIds == 1..MaxCalls

\* a JSON body that is the value null
JsonNull == [shape |-> "null", docs |-> <<>>]

\* a result without a data field
NoData == [kind |-> "none", items |-> <<>>]

NoResult ==
    [settled |-> "none", success |-> FALSE, message |-> "", error |-> "",
     data |-> NoData]

IdleCall ==
    [op |-> "none", arg |-> 0, pc |-> "idle", primary |-> "none",
     fallback |-> "none", inFlight |-> {}, options |-> [method |-> "", body |-> <<>>],
     requests |-> <<>>, response |-> JsonNull, result |-> NoResult]

\* parseMarkdown has not been called
NoParse ==
    [input |-> [type |-> "none", value |-> <<>>], outcome |-> "none",
     raised |-> FALSE, value |-> <<>>]

\* the setter of useLocalStorage has not been called and nothing was read
NoStoreCall == [kind |-> "none", arg |-> <<>>, stored |-> <<>>, ok |-> TRUE]

\* no orchestrator operation has completed yet
NoneSettled ==
    [op |-> "none", arg |-> Null, client |-> "none", settled |-> "none",
     success |-> FALSE, message |-> "", listed |-> <<>>]

InitExceptStorage ==
    /\ timers = {}
    /\ timeoutId = Null
    /\ sinceSubmit = DebounceDelay
    /\ burstSubmits = <<>>
    /\ burstSink = <<>>
    /\ pvMounted = FALSE
    /\ markdown = Empty
    /\ htmlContent = <<>>
    /\ pvIsLoading = FALSE
    /\ pvDirty = FALSE
    /\ lastDelivery = <<>>
    /\ asPhase = "new"
    /\ value = Empty
    /\ enabled = TRUE
    /\ saveFunction = 1
    /\ timeoutRef = Null
    /\ lastSavedRef = Empty
    /\ isFirstRenderRef = TRUE
    /\ saveFunctionRef = 1
    /\ hasCleanup = FALSE
    /\ sinceChange = AutosaveDelay
    /\ changed = FALSE
    /\ asEvent = "none"
    /\ invoked = <<>>
    /\ writeFailed = FALSE
    /\ uncaught = FALSE
    /\ calls = [c \in CallIds |-> IdleCall]
    /\ now = 1
    /\ stPhase = "new"
    /\ storedValue = Empty
    /\ stQueued = <<>>
    /\ stReference = Empty
    /\ stLast = NoStoreCall
    /\ isOpen = FALSE
    /\ notification = <<>>
    /\ errorTimer = Null
    /\ panelEvent = "none"
    /\ parsed = NoParse
    /\ pendingOps = EmptyBag
    /\ isLoading = FALSE
    /\ error = <<>>
    /\ cloudDocuments = <<>>
    /\ lastSyncTime = Null
    /\ editorContent = Empty
    /\ lastSettled = NoneSettled

Init == InitExceptStorage /\ localStorage = NoItem

NextDebounce ==
    \/ \E md \in MarkdownValues : DbSubmit(md)
    \/ DbFire
    \/ DbTick

SpecDebounce == Init /\ [][NextDebounce]_vars

(***************************************************************************)
(* C1: for one scheduler, a burst of submits each less than D after the    *)
(* previous one delivers nothing while the burst lasts, and once D has     *)
(* passed since the last submit and the due timer has run, the sink has    *)
(* been called exactly once, with parseMarkdown of the last submitted      *)
(* value.                                                                  *)
(***************************************************************************)
C1_DebounceDeliversLastOnce ==
    burstSubmits # <<>> =>
        /\ Cardinality(timers) <= 1
        /\ (sinceSubmit < DebounceDelay \/ Due(timers) # {}) =>
              /\ burstSink = <<>>
              /\ \A t \in timers : t.arg = Last(burstSubmits)
        /\ (sinceSubmit = DebounceDelay /\ Due(timers) = {}) =>
              burstSink = <<parseMarkdown(Last(burstSubmits))>>

C1_Witness ==
    /\ Len(burstSubmits) >= 2
    /\ parseMarkdown(burstSubmits[1]) # parseMarkdown(Last(burstSubmits))
    /\ sinceSubmit = DebounceDelay
    /\ burstSink = <<parseMarkdown(Last(burstSubmits))>>

(***************************************************************************)
(* The Preview component.  Every render calls createDebouncedParser, so    *)
(* the effect of a render works on a new closure whose timeoutId is null;  *)
(* the effect depends on [markdown, debouncedParser] and therefore runs    *)
(* after every committed render.  A state setter given the value the       *)
(* state already has schedules no re-render.                               *)
(***************************************************************************)
createDebouncedParser == Null

\* the body of the effect, after a render with prop md
PreviewEffect(md) ==
    IF md = Empty
    THEN /\ htmlContent' = <<>>
         /\ pvIsLoading' = FALSE
         /\ pvDirty' = (htmlContent # <<>> \/ pvIsLoading)
         /\ timers' = timers
    ELSE /\ Cardinality(timers) < MaxTimers
         /\ htmlContent' = htmlContent
         /\ pvIsLoading' = TRUE
         /\ pvDirty' = ~pvIsLoading
         /\ timers' = DebouncedParser(createDebouncedParser, timers, md).timers

\* the parent renders Preview: the first render, a new markdown prop, or a
\* re-render of the parent with the same prop
PreviewRender(md) ==
    /\ pvMounted' = TRUE
    /\ markdown' = md
    /\ PreviewEffect(md)
    /\ UNCHANGED <<lastDelivery, pvFrame>>

\* the re-render that follows a change of htmlContent or isLoading
PreviewRerender ==
    /\ pvMounted
    /\ pvDirty
    /\ PreviewEffect(markdown)
    /\ UNCHANGED <<pvMounted, markdown, lastDelivery, pvFrame>>

\* the timer callback: parse the captured markdown and hand it to the sink
PreviewTimerFire ==
    /\ \E t \in Due(timers) :
         LET result == parseMarkdown(t.arg)
         IN  /\ timers' = timers \ {t}
             /\ htmlContent' = result
             /\ pvIsLoading' = FALSE
             /\ pvDirty' = (pvDirty \/ htmlContent # result \/ pvIsLoading)
             /\ lastDelivery' = <<[html |-> result, current |-> markdown]>>
    /\ UNCHANGED <<pvMounted, markdown, pvFrame>>

PreviewTick ==
    /\ pvMounted
    /\ Due(timers) = {}
    /\ ~pvDirty
    /\ timers # {}
    /\ timers' = Elapse(timers)
    /\ UNCHANGED <<pvVars, pvFrame>>

NextPreview ==
    \/ \E md \in MarkdownValues : PreviewRender(md)
    \/ PreviewRerender
    \/ PreviewTimerFire
    \/ PreviewTick

SpecPreview == Init /\ [][NextPreview]_vars

(***************************************************************************)
(* C2: in the Preview component at most one render timer is pending at     *)
(* every moment.                                                           *)
(***************************************************************************)
C2_AtMostOneRenderTimer == Cardinality(timers) <= 1

(***************************************************************************)
(* C3: every HTML value the Preview sink receives is the render of the     *)
(* markdown prop that is current when it is delivered.                     *)
(***************************************************************************)
C3_DeliveryIsCurrent ==
    \A i \in 1..Len(lastDelivery) :
        lastDelivery[i].html = parseMarkdown(lastDelivery[i].current)

(***************************************************************************)
(* useThrottledAutosave.  A render of the host component passes the        *)
(* tracked value, the enabled option and the save callback; the effects    *)
(* of a render run with it.  The memoised throttledSave changes identity   *)
(* exactly when value or enabled changes (delay is fixed), and the         *)
(* autosave effect depends on throttledSave alone.                         *)
(***************************************************************************)
SaveFunctions == {1, 2}

throttledSaveShortDelay(ts, ref, v, en) ==
    IF ~en THEN [timers |-> ts, timeoutRef |-> ref]
    ELSE LET cleared == IF ref # Null THEN clearTimeout(ts, ref) ELSE ts
             id == FreshId(cleared, {ref})
         IN  [timers |-> setTimeout(cleared, id, AutosaveDelay - 1, v),
              timeoutRef |-> id]

\* throttledSave, created by the render with value v and enabled en
throttledSave(ts, ref, v, en) ==
    IF ~en THEN [timers |-> ts, timeoutRef |-> ref]
    ELSE LET cleared == IF ref # Null THEN clearTimeout(ts, ref) ELSE ts
             id == FreshId(cleared, {ref})
         IN  [timers |-> setTimeout(cleared, id, AutosaveDelay, v),
              timeoutRef |-> id]

\* a mutant of effectCleanup: the cleanup leaves the timer pending
effectCleanupKeepsTimer(ts, ref) == ts

\* the cleanup the autosave effect returns
effectCleanup(ts, ref) == IF ref # Null THEN clearTimeout(ts, ref) ELSE ts

\* the timer callback created by the render with value v: the calls it makes
timerCallbackAlwaysSaves(v, lastSaved, fn) == <<[value |-> v, fn |-> fn]>>

timerCallback(v, lastSaved, fn) ==
    IF v # lastSaved THEN <<[value |-> v, fn |-> fn]>> ELSE <<>>

\* the body of the autosave effect after a render with value v and enabled en;
\* ts is the timer table left by the cleanup of the previous run
AutosaveEffectNoSkip(ts, v, en) ==
    LET r == throttledSave(ts, timeoutRef, v, en)
    IN  /\ timers' = r.timers
        /\ timeoutRef' = r.timeoutRef
        /\ hasCleanup' = TRUE
        /\ isFirstRenderRef' = FALSE
        /\ lastSavedRef' = IF isFirstRenderRef THEN v ELSE lastSavedRef

AutosaveEffect(ts, v, en) ==
    IF isFirstRenderRef
    THEN /\ isFirstRenderRef' = FALSE
         /\ lastSavedRef' = v
         /\ timers' = ts
         /\ hasCleanup' = FALSE
         /\ timeoutRef' = timeoutRef
    ELSE LET r == throttledSave(ts, timeoutRef, v, en)
         IN  /\ timers' = r.timers
             /\ timeoutRef' = r.timeoutRef
             /\ hasCleanup' = TRUE
             /\ UNCHANGED <<isFirstRenderRef, lastSavedRef>>

\* the first render and its effects
AsMountHook(v, en, fn) ==
    /\ asPhase = "new"
    /\ asPhase' = "mounted"
    /\ value' = v
    /\ enabled' = en
    /\ saveFunction' = fn
    /\ saveFunctionRef' = fn
    /\ AutosaveEffect(timers, v, en)
    /\ sinceChange' = AutosaveDelay
    /\ changed' = FALSE
    /\ asEvent' = "mount"
    /\ invoked' = <<>>

\* a mutant of AsRenderHook: a new callback re-runs the autosave effect
AsRenderHookRearming(v, en, fn) ==
    /\ asPhase = "mounted"
    /\ value' = v
    /\ enabled' = en
    /\ saveFunction' = fn
    /\ saveFunctionRef' = fn
    /\ IF v # value \/ en # enabled \/ fn # saveFunction
       THEN AutosaveEffect(IF hasCleanup THEN effectCleanup(timers, timeoutRef)
                           ELSE timers, v, en)
       ELSE UNCHANGED <<timers, timeoutRef, hasCleanup, isFirstRenderRef,
                        lastSavedRef>>
    /\ sinceChange' = IF v # value THEN 0 ELSE sinceChange
    /\ changed' = (changed \/ v # value)
    /\ asEvent' = IF v # value THEN "change"
                  ELSE IF en = enabled /\ fn # saveFunction THEN "callback"
                  ELSE "render"
    /\ invoked' = <<>>
    /\ UNCHANGED asPhase

\* a later render with props v, en, fn and the effects that run after it; the
\* event is "callback" when the render replaces nothing but the save callback
AsRenderHook(v, en, fn) ==
    /\ asPhase = "mounted"
    /\ value' = v
    /\ enabled' = en
    /\ saveFunction' = fn
    /\ saveFunctionRef' = fn
    /\ IF v # value \/ en # enabled
       THEN AutosaveEffect(IF hasCleanup THEN effectCleanup(timers, timeoutRef)
                           ELSE timers, v, en)
       ELSE UNCHANGED <<timers, timeoutRef, hasCleanup, isFirstRenderRef,
                        lastSavedRef>>
    /\ sinceChange' = IF v # value THEN 0 ELSE sinceChange
    /\ changed' = (changed \/ v # value)
    /\ asEvent' = IF v # value THEN "change"
                  ELSE IF en = enabled /\ fn # saveFunction THEN "callback"
                  ELSE "render"
    /\ invoked' = <<>>
    /\ UNCHANGED asPhase

\* a due autosave timer runs its callback; throws: the save callback throws
AsTimerFireHook(throws) ==
    /\ \E t \in Due(timers) :
         LET made == timerCallback(t.arg, lastSavedRef, saveFunctionRef)
         IN  /\ timers' = timers \ {t}
             /\ invoked' = made
             /\ lastSavedRef' = IF made # <<>> /\ ~throws THEN t.arg
                                ELSE lastSavedRef
    /\ asEvent' = "fire"
    /\ UNCHANGED <<asPhase, value, enabled, saveFunction, timeoutRef,
                   isFirstRenderRef, saveFunctionRef, hasCleanup, sinceChange, changed>>

forceSaveIgnoresEnabled(ts, ref, v, en) ==
    [timers |-> IF ref # Null THEN clearTimeout(ts, ref) ELSE ts,
     timeoutRef |-> Null, calls |-> <<v>>]

forceSaveKeepsTimer(ts, ref, v, en) ==
    IF en THEN [timers |-> ts, timeoutRef |-> ref, calls |-> <<v>>]
    ELSE [timers |-> ts, timeoutRef |-> ref, calls |-> <<>>]

\* forceSave of the latest render: the timer table, timeoutRef and the values
\* the save callback is called with
forceSave(ts, ref, v, en) ==
    IF en
    THEN [timers |-> IF ref # Null THEN clearTimeout(ts, ref) ELSE ts,
          timeoutRef |-> Null, calls |-> <<v>>]
    ELSE [timers |-> ts, timeoutRef |-> ref, calls |-> <<>>]

AsForceSaveHook(throws) ==
    /\ asPhase = "mounted"
    /\ LET r == forceSave(timers, timeoutRef, value, enabled)
       IN  /\ timers' = r.timers
           /\ timeoutRef' = r.timeoutRef
           /\ invoked' = [i \in 1..Len(r.calls) |->
                            [value |-> r.calls[i], fn |-> saveFunctionRef]]
           /\ lastSavedRef' = IF r.calls # <<>> /\ ~throws THEN value
                              ELSE lastSavedRef
    /\ asEvent' = "force"
    /\ UNCHANGED <<asPhase, value, enabled, saveFunction, isFirstRenderRef,
                   saveFunctionRef, hasCleanup, sinceChange, changed>>

\* the component is discarded: the registered cleanup runs
AsUnmountHook ==
    /\ asPhase = "mounted"
    /\ asPhase' = "unmounted"
    /\ timers' = IF hasCleanup THEN effectCleanup(timers, timeoutRef) ELSE timers
    /\ asEvent' = "unmount"
    /\ invoked' = <<>>
    /\ UNCHANGED <<value, enabled, saveFunction, timeoutRef, lastSavedRef,
                   isFirstRenderRef, saveFunctionRef, hasCleanup, sinceChange, changed>>

AsTickHook ==
    /\ asPhase # "new"
    /\ Due(timers) = {}
    /\ timers # {} \/ sinceChange < AutosaveDelay \/ asEvent # "tick"
    /\ timers' = Elapse(timers)
    /\ sinceChange' = IF sinceChange < AutosaveDelay THEN sinceChange + 1
                      ELSE sinceChange
    /\ asEvent' = "tick"
    /\ invoked' = <<>>
    /\ UNCHANGED <<asPhase, value, enabled, saveFunction, timeoutRef, lastSavedRef,
                   isFirstRenderRef, saveFunctionRef, hasCleanup, changed>>

(***************************************************************************)
(* The hook in a host that passes any value, option and callback; the      *)
(* callback returns normally.                                              *)
(***************************************************************************)
AsMount(v, en, fn) == AsMountHook(v, en, fn) /\ UNCHANGED asFrame
AsRender(v, en, fn) == AsRenderHook(v, en, fn) /\ UNCHANGED asFrame
AsTimerFire == AsTimerFireHook(FALSE) /\ UNCHANGED asFrame
AsForceSave == AsForceSaveHook(FALSE) /\ UNCHANGED asFrame
AsUnmount == AsUnmountHook /\ UNCHANGED asFrame
AsTick == AsTickHook /\ UNCHANGED asFrame

NextAutosave ==
    \/ \E v \in MarkdownValues, en \in BOOLEAN, fn \in SaveFunctions : AsMount(v, en, fn)
    \/ \E v \in MarkdownValues, en \in BOOLEAN, fn \in SaveFunctions : AsRender(v, en, fn)
    \/ AsTimerFire
    \/ AsForceSave
    \/ AsUnmount
    \/ AsTick

SpecAutosave == Init /\ [][NextAutosave]_vars

C6_FirstObservationNoSave ==
    /\ asEvent = "mount" =>
          /\ lastSavedRef = value
          /\ timers = {}
          /\ invoked = <<>>
    /\ (asPhase # "new" /\ ~changed /\ asEvent = "fire") => invoked = <<>>

C6_Witness ==
    /\ asEvent = "fire"
    /\ ~changed
    /\ invoked = <<>>

(***************************************************************************)
(* C7: after initialization and while enabled, a change of the tracked     *)
(* value leaves exactly one pending timer, armed for the full delay with   *)
(* the new value; at most one autosave timer is pending at any time; a     *)
(* timer saves no earlier than the delay after the most recent change.     *)
(***************************************************************************)
C7_ChangeRearmsSingleTimer ==
    /\ Cardinality(timers) <= 1
    /\ (asEvent = "change" /\ enabled) =>
          timers = {[id |-> timeoutRef, left |-> AutosaveDelay, arg |-> value]}
    /\ (asEvent = "fire" /\ invoked # <<>>) => sinceChange = AutosaveDelay

C7_Witness ==
    /\ asEvent = "fire"
    /\ invoked # <<>>
    /\ sinceChange = AutosaveDelay
    /\ timeoutRef > 1

(***************************************************************************)
(* C8: while enabled is false no timer is pending, nothing calls the save  *)
(* callback, and last-saved does not change; forceSave does nothing.       *)
(***************************************************************************)
C8_DisabledDoesNothing ==
    [][(asPhase = "mounted" /\ ~enabled) =>
         /\ timers = {}
         /\ ~enabled' =>
               /\ timers' = {}
               /\ invoked' = <<>>
               /\ lastSavedRef' = lastSavedRef]_vars

C8_Witness ==
    /\ asPhase = "mounted"
    /\ ~enabled
    /\ asEvent = "force"
    /\ changed
    /\ lastSavedRef # value

(***************************************************************************)
(* C28: after the component that uses the hook is discarded, no autosave   *)
(* timer is pending and the save callback is not invoked, whatever value   *)
(* changes, enabled changes and forceSave calls came before.               *)
(***************************************************************************)
C28_NoSaveAfterUnmount ==
    asPhase = "unmounted" => (timers = {} /\ invoked = <<>>)

\* the component was discarded while the timer of an unsaved change was pending
C28_Witness ==
    /\ asPhase = "unmounted"
    /\ asEvent = "unmount"
    /\ enabled
    /\ timeoutRef # Null
    /\ sinceChange < AutosaveDelay
    /\ value # lastSavedRef

(***************************************************************************)
(* C29: a render that replaces only the save callback while an autosave    *)
(* timer is pending leaves the timer as it is, deadline included, and the  *)
(* timer, when it fires, invokes the callback of the most recent render.   *)
(***************************************************************************)
C29_CallbackReplacedWithoutRearming ==
    [][/\ asEvent' = "callback" =>
             /\ timers' = timers
             /\ timeoutRef' = timeoutRef
             /\ lastSavedRef' = lastSavedRef
       /\ asEvent' = "fire" =>
             \A i \in 1..Len(invoked') : invoked'[i].fn = saveFunction]_vars

\* the callback was replaced while the timer of an unsaved change was running
C29_Witness ==
    /\ asEvent = "callback"
    /\ \E t \in timers :
          /\ t.left < AutosaveDelay
          /\ t.left > 0
          /\ t.arg # lastSavedRef

(***************************************************************************)
(* JSON.stringify and JSON.parse on strings.                               *)
(***************************************************************************)
JsonEscapeChar(c) ==
    IF c = "\"" THEN <<"\\", "\"">>
    ELSE IF c = "\\" THEN <<"\\", "\\">>
    ELSE IF c = "\n" THEN <<"\\", "n">>
    ELSE <<c>>

RECURSIVE JsonEscape(_)
JsonEscape(s) ==
    IF s = <<>> THEN <<>> ELSE JsonEscapeChar(Head(s)) \o JsonEscape(Tail(s))

JSONstringify(s) == <<"\"">> \o JsonEscape(s) \o <<"\"">>

\* the characters between the quotes of a JSON string literal are well formed
RECURSIVE JsonBodyOk(_)
JsonBodyOk(b) ==
    IF b = <<>> THEN TRUE
    ELSE IF Head(b) = "\"" THEN FALSE
    ELSE IF Head(b) = "\\"
         THEN /\ Len(b) >= 2
              /\ b[2] \in {"\"", "\\", "n"}
              /\ JsonBodyOk(SubSeq(b, 3, Len(b)))
    ELSE JsonBodyOk(Tail(b))

RECURSIVE JsonUnescape(_)
JsonUnescape(b) ==
    IF b = <<>> THEN <<>>
    ELSE IF Head(b) = "\\"
         THEN <<(IF b[2] = "n" THEN "\n" ELSE b[2])>> \o JsonUnescape(SubSeq(b, 3, Len(b)))
    ELSE <<Head(b)>> \o JsonUnescape(Tail(b))

\* JSON.parse throws on a text that is no JSON string literal
JSONparseThrows(text) ==
    ~ /\ Len(text) >= 2
      /\ text[1] = "\""
      /\ text[Len(text)] = "\""
      /\ JsonBodyOk(SubSeq(text, 2, Len(text) - 1))

JSONparse(text) == JsonUnescape(SubSeq(text, 2, Len(text) - 1))

(***************************************************************************)
(* useLocalStorage: the initial read and the setter.                       *)
(***************************************************************************)
defaultMarkdown == <<"#", " ", "G">>

\* a mutant of useLocalStorageInit: the stored text is parsed unchecked
useLocalStorageInitUnchecked(item, initialValue) ==
    IF ~item.present \/ item.text = <<>> THEN initialValue
    ELSE JSONparse(item.text)

\* the lazy initial state: the stored value, or initialValue on a miss or on
\* a text that does not parse
useLocalStorageInit(item, initialValue) ==
    IF ~item.present \/ item.text = <<>> THEN initialValue
    ELSE IF JSONparseThrows(item.text) THEN initialValue
    ELSE JSONparse(item.text)

\* window.localStorage.setItem(key, text); ok: the write does not throw
setItem(store, text, ok) ==
    IF ok THEN [present |-> TRUE, text |-> text] ELSE store

\* the durable write of setValue(v)
setValueStore(store, v, ok) == setItem(store, JSONstringify(v), ok)

\* the durable write of autosaveToStorage(content)
autosaveToStorageRaw(store, content, ok) == setItem(store, content, ok)

autosaveToStorage(store, content, ok) == setItem(store, JSONstringify(content), ok)

\* what the durable store can hold when the page is opened
StoredItems ==
    {NoItem} \cup {[present |-> TRUE, text |-> JSONstringify(v)] : v \in MarkdownValues}
    \cup {[present |-> TRUE, text |-> <<"{">>]}

(***************************************************************************)
(* useLocalStorage in a component that keeps a string under a key and      *)
(* calls the setter with values and with functions of the previous value.  *)
(* A call of the setter queues a state update; the next render applies the *)
(* queued update and gives the setter its new closure.                     *)
(***************************************************************************)

\* two functions of the previous value that a caller passes to the setter
ToggleSuffix(v) ==
    IF v # <<>> /\ v[Len(v)] = "!" THEN SubSeq(v, 1, Len(v) - 1) ELSE v \o <<"!">>

TogglePrefix(v) ==
    IF v # <<>> /\ v[1] = ">" THEN Tail(v) ELSE <<">">> \o v

StoreUpdates ==
    {[kind |-> "value", value |-> v] : v \in {Empty, MdQuote}}
        \cup {[kind |-> "suffix", value |-> <<>>], [kind |-> "prefix", value |-> <<>>]}

\* value instanceof Function ? value(previous) : value
ApplyUpdate(u, previous) ==
    CASE u.kind = "value" -> u.value
      [] u.kind = "suffix" -> ToggleSuffix(previous)
      [] u.kind = "prefix" -> TogglePrefix(previous)

\* what the durable store can hold when the component is mounted
StoreItems ==
    StoredItems \cup {[present |-> TRUE, text |-> <<>>],
                      [present |-> TRUE, text |-> <<"\"", "a">>]}

\* a mutant of setValueQueue: the state is updated after the durable write
setValueQueueAfterWrite(queued, valueToStore, ok) ==
    IF ok THEN <<valueToStore>> ELSE queued

\* setStoredValue(valueToStore) runs before the durable write is tried, so it
\* is queued whether the write succeeds or not
setValueQueue(queued, valueToStore, ok) == <<valueToStore>>

\* the value in memory: the queued update when there is one
StoreMemory == IF stQueued # <<>> THEN stQueued[1] ELSE storedValue

\* the first render: the lazy initial state reads the durable store
StoreMount(initialValue) ==
    /\ stPhase = "new"
    /\ stPhase' = "mounted"
    /\ storedValue' = useLocalStorageInit(localStorage, initialValue)
    /\ stReference' = useLocalStorageInit(localStorage, initialValue)
    /\ stLast' = [kind |-> "mount", arg |-> initialValue, stored |-> <<>>, ok |-> TRUE]
    /\ UNCHANGED <<stQueued, localStorage, storeFrame>>

\* setValue(u); ok: window.localStorage.setItem does not throw.  The function
\* form is applied to storedValue, the value of the render that made the setter
StoreSet(u, ok) ==
    /\ stPhase = "mounted"
    /\ LET valueToStore == ApplyUpdate(u, storedValue)
       IN  /\ stQueued' = setValueQueue(stQueued, valueToStore, ok)
           /\ localStorage' = setValueStore(localStorage, valueToStore, ok)
           /\ stLast' = [kind |-> "set", arg |-> u.value, stored |-> valueToStore,
                         ok |-> ok]
    /\ stReference' = ApplyUpdate(u, stReference)
    /\ UNCHANGED <<stPhase, storedValue, storeFrame>>

\* the render after a call of the setter
StoreRender ==
    /\ stPhase = "mounted"
    /\ stQueued # <<>>
    /\ storedValue' = stQueued[1]
    /\ stQueued' = <<>>
    /\ UNCHANGED <<stPhase, stReference, stLast, localStorage, storeFrame>>

InitStore == InitExceptStorage /\ localStorage \in StoreItems

NextStore ==
    \/ \E initialValue \in {defaultMarkdown, MdText} : StoreMount(initialValue)
    \/ \E u \in StoreUpdates, ok \in BOOLEAN : StoreSet(u, ok)
    \/ StoreRender

SpecStore == InitStore /\ [][NextStore]_vars

(***************************************************************************)
(* C23: when the durable write of a call of the setter fails, the value in *)
(* memory is still the new value, the durable item is left as it was, and  *)
(* the call returns normally.                                              *)
(***************************************************************************)
C23_MemoryUpdatedWhenWriteFails ==
    (stLast.kind = "set" /\ ~stLast.ok) =>
        /\ StoreMemory = stLast.stored
        /\ stLast.arg # <<>> => StoreMemory = stLast.arg

\* the last call of the setter passed a non-empty value and its write failed
C23_Witness ==
    /\ stLast.kind = "set"
    /\ ~stLast.ok
    /\ stLast.arg = MdQuote
    /\ localStorage # [present |-> TRUE, text |-> JSONstringify(MdQuote)]

(***************************************************************************)
(* C24: calls of the setter with functions compose like those of the       *)
(* in-memory state's own setter: the value in memory is what a plain state *)
(* would hold after the same calls, also for two calls before the next     *)
(* render, and after a successful write the durable item holds that value. *)
(***************************************************************************)
C24_FunctionalUpdatesCompose ==
    stPhase = "mounted" =>
        /\ StoreMemory = stReference
        /\ (stLast.kind = "set" /\ stLast.ok) =>
               localStorage = [present |-> TRUE, text |-> JSONstringify(stReference)]

(***************************************************************************)
(* C25: the initial read gives the provided default when the key is absent *)
(* or its text does not deserialize, and the deserialized value otherwise. *)
(***************************************************************************)
C25_InitialReadOrDefault ==
    stLast.kind = "mount" =>
        /\ \A v \in MarkdownValues :
              (localStorage.present /\ localStorage.text = JSONstringify(v))
                  => storedValue = v
        /\ (\A v \in MarkdownValues :
                ~(localStorage.present /\ localStorage.text = JSONstringify(v)))
              => storedValue = stLast.arg

\* the component was mounted over a stored text that is not JSON
C25_Witness ==
    /\ stLast.kind = "mount"
    /\ localStorage = [present |-> TRUE, text |-> <<"{">>]
    /\ storedValue = defaultMarkdown

(***************************************************************************)
(* The editor page.  Its markdown state is the hook's tracked value; every *)
(* render passes a new autosaveToStorage function and enabled by default.  *)
(***************************************************************************)
OtherFunction(fn) == IF fn = 1 THEN 2 ELSE 1

HomeMount ==
    /\ AsMountHook(useLocalStorageInit(localStorage, defaultMarkdown), TRUE, 1)
    /\ uncaught' = FALSE
    /\ UNCHANGED <<localStorage, writeFailed, homeFrame>>

\* setMarkdown(v): typing, Clear, Reset, a loaded file or cloud document; the
\* setter catches the exception of a failed write
HomeSetMarkdown(v, ok) ==
    /\ asPhase = "mounted"
    /\ uncaught' = FALSE
    /\ localStorage' = setValueStore(localStorage, v, ok)
    /\ IF v # value
       THEN /\ AsRenderHook(v, TRUE, OtherFunction(saveFunction))
            /\ writeFailed' = ~ok
       ELSE /\ writeFailed' = (writeFailed \/ ~ok)
            /\ asEvent' = "idle"
            /\ invoked' = <<>>
            /\ UNCHANGED <<timers, asPhase, value, enabled, saveFunction, timeoutRef,
                           lastSavedRef, isFirstRenderRef, saveFunctionRef,
                           hasCleanup, sinceChange, changed>>
    /\ UNCHANGED homeFrame

\* a re-render of the page with the same content (view mode, title, lastSaved)
HomeRerender ==
    /\ AsRenderHook(value, TRUE, OtherFunction(saveFunction))
    /\ uncaught' = FALSE
    /\ UNCHANGED <<localStorage, writeFailed, homeFrame>>

\* the autosave timer fires; ok: localStorage.setItem does not throw.  Neither
\* autosaveToStorage nor the timer callback has a try block, so the exception
\* of a failed write leaves the timer callback
HomeTimerFire(ok) ==
    /\ AsTimerFireHook(~ok)
    /\ uncaught' = (invoked' # <<>> /\ ~ok)
    /\ IF invoked' # <<>>
       THEN /\ localStorage' = autosaveToStorage(localStorage, invoked'[1].value, ok)
            /\ writeFailed' = (writeFailed \/ ~ok)
       ELSE /\ ok
            /\ UNCHANGED <<localStorage, writeFailed>>
    /\ UNCHANGED homeFrame

HomeTick ==
    /\ AsTickHook
    /\ uncaught' = FALSE
    /\ UNCHANGED <<localStorage, writeFailed, homeFrame>>

HomeUnmount ==
    /\ AsUnmountHook
    /\ uncaught' = FALSE
    /\ UNCHANGED <<localStorage, writeFailed, homeFrame>>

InitHome == InitExceptStorage /\ localStorage \in StoredItems

NextHome ==
    \/ HomeMount
    \/ \E v \in MarkdownValues, ok \in BOOLEAN : HomeSetMarkdown(v, ok)
    \/ HomeRerender
    \/ \E ok \in BOOLEAN : HomeTimerFire(ok)
    \/ HomeTick
    \/ HomeUnmount

SpecHome == InitHome /\ [][NextHome]_vars

(***************************************************************************)
(* C9: in the editor page, once the content was changed to v, the delay    *)
(* has passed without a further change, the page is still mounted and no   *)
(* durable write has failed since the change, the key 'markdown-content'   *)
(* holds the JSON serialization of v.                                      *)
(***************************************************************************)
C9_DurableAfterQuietDelay ==
    ( /\ asPhase = "mounted"
      /\ changed
      /\ ~writeFailed
      /\ sinceChange = AutosaveDelay
      /\ Due(timers) = {} )
    => localStorage = [present |-> TRUE, text |-> JSONstringify(value)]

C9_Witness ==
    /\ asPhase = "mounted"
    /\ changed
    /\ ~writeFailed
    /\ sinceChange = AutosaveDelay
    /\ Due(timers) = {}
    /\ asEvent = "fire"
    /\ invoked # <<>>
    /\ value = MdHi
    /\ localStorage.text = <<"\"", "#", " ", "H", "i", "\"">>

(***************************************************************************)
(* C26: the durable key 'markdown-content' is written only when the        *)
(* autosave scheduler invokes its save callback, on a timer firing or a    *)
(* forceSave; a change of the content by itself does not write it.         *)
(***************************************************************************)
C26_DurableWrittenOnlyByAutosave ==
    [][localStorage' # localStorage =>
           (asEvent' \in {"fire", "force"} /\ invoked' # <<>>)]_vars

(***************************************************************************)
(* C27: a failed durable write of the markdown key is caught where it is   *)
(* made, on the setter's path and on the autosave callback's path alike:   *)
(* no exception is left uncaught and the previous durable value is kept.   *)
(***************************************************************************)
C27_WriteFailureRecovered ==
    [][/\ ~uncaught'
       /\ (writeFailed' /\ ~writeFailed) => localStorage' = localStorage]_vars

(***************************************************************************)
(* The remote document client.  A request to one host ends in one of four  *)
(* ways: the fetch promise rejects, the response is not 2xx, the response  *)
(* is 2xx with a JSON body, or it is 2xx with an empty or non-JSON body.   *)
(* A JSON body is null, one post object, or an array of post objects.      *)
(***************************************************************************)
ClientOps == {"save", "load", "list", "delete", "update"}

\* the posts a host can answer with: the post with an odd id has a body,
\* the post with an even id has an empty one
ServerDoc(i) ==
    [id |-> i, title |-> <<"T">>, body |-> IF i % 2 = 1 THEN MdHi ELSE Empty,
     createdAt |-> 1, type |-> "markdown"]

ServerDocs == {ServerDoc(1), ServerDoc(2)}

JsonObject(d) == [shape |-> "object", docs |-> <<d>>]

JsonArray(s) == [shape |-> "array", docs |-> s]

Bodies ==
    {JsonNull} \cup {JsonObject(d) : d \in ServerDocs}
               \cup {JsonArray(<<>>)}
               \cup {JsonArray(<<d>>) : d \in ServerDocs}
               \cup {JsonArray(<<d, e>>) : d \in ServerDocs, e \in ServerDocs}

OutcomeKinds == {"networkError", "non2xx", "okJson", "okNoJson"}

Outcomes ==
    {[kind |-> k, body |-> JsonNull] : k \in OutcomeKinds \ {"okJson"}}
        \cup {[kind |-> "okJson", body |-> b] : b \in Bodies}

API_CONFIG ==
    [primary |-> [name |-> "oluwasetemi", baseUrl |-> "https://api.oluwasetemi.dev"],
     fallback |-> [name |-> "jsonplaceholder",
                   baseUrl |-> "https://jsonplaceholder.typicode.com"]]

Method(op) ==
    CASE op = "save" -> "POST"
      [] op = "load" -> "GET"
      [] op = "list" -> "GET"
      [] op = "delete" -> "DELETE"
      [] op = "update" -> "PUT"

\* the endpoint an operation passes to apiRequestWithFallback
Endpoint(op, arg) ==
    CASE op = "save" -> <<"/posts">>
      [] op = "list" -> <<"/posts?_limit=", arg>>
      [] OTHER -> <<"/posts/", arg>>

\* title || 'Untitled Document'
TitleOrDefault(title) == IF title = <<>> THEN <<"Untitled Document">> ELSE title

\* the payload saveMarkdownToAPI and updateMarkdownInAPI build at time t; the
\* other operations send no body
Payload(op, arg, title, content, t) ==
    CASE op = "save" ->
           <<[id |-> Null, title |-> TitleOrDefault(title), body |-> content,
              userId |-> 1, tags |-> <<>>, stamp |-> "createdAt", at |-> t,
              type |-> "markdown"]>>
      [] op = "update" ->
           <<[id |-> arg, title |-> TitleOrDefault(title), body |-> content,
              userId |-> 1, tags |-> <<>>, stamp |-> "updatedAt", at |-> t,
              type |-> "markdown"]>>
      [] OTHER -> <<>>

\* the options an operation passes to apiRequestWithFallback; it builds them
\* once, before the first request
RequestInit(op, arg, title, content, t) ==
    [method |-> Method(op), body |-> Payload(op, arg, title, content, t)]

\* a mutant of Request: the fallback request is sent without the body
RequestFallbackWithoutBody(host, endpoint, options) ==
    [url |-> <<API_CONFIG[host].baseUrl>> \o endpoint, method |-> options.method,
     headers |-> <<"Content-Type", "application/json">>,
     body |-> IF host = "fallback" THEN <<>> ELSE options.body]

\* the fetch call apiRequest makes for one host
Request(host, endpoint, options) ==
    [url |-> <<API_CONFIG[host].baseUrl>> \o endpoint, method |-> options.method,
     headers |-> <<"Content-Type", "application/json">>, body |-> options.body]

\* apiRequest throws when fetch rejects, when the response is not ok, and
\* when response.json() rejects
apiRequestThrows(outcome) == outcome.kind # "okJson"

SuccessMessage(op) ==
    CASE op = "save" -> "Document saved successfully"
      [] op = "load" -> "Document loaded successfully"
      [] op = "list" -> "Documents retrieved successfully"
      [] op = "delete" -> "Document deleted successfully"
      [] op = "update" -> "Document updated successfully"

FailureMessage(op) ==
    CASE op = "save" -> "Failed to save document to API"
      [] op = "load" -> "Failed to load document from API"
      [] op = "list" -> "Failed to retrieve documents from API"
      [] op = "delete" -> "Failed to delete document from API"
      [] op = "update" -> "Failed to update document in API"

\* doc.body ? doc.body.substring(0, 100) + '...' : ''
PreviewText(body) ==
    IF body = <<>> THEN <<>>
    ELSE SubSeq(body, 1, IF Len(body) < PreviewLength THEN Len(body) ELSE PreviewLength)
             \o <<".", ".", ".">>

\* one entry of the list operation's data
DocumentPreview(doc) ==
    [id |-> doc.id, title |-> doc.title, preview |-> PreviewText(doc.body),
     createdAt |-> doc.createdAt, type |-> doc.type]

\* a mutant of Documents: a single object is not wrapped
DocumentsWithoutWrap(body) == IF body.shape = "array" THEN body.docs ELSE <<>>

\* Array.isArray(result) ? result : [result], for a result that is not null
Documents(body) == body.docs

\* the data loadMarkdownFromAPI builds: the fields of the post object; an
\* array has none of them, so they are undefined and createdAt is the time t
DocumentData(body, t) ==
    IF body.shape = "object"
    THEN [id |-> body.docs[1].id, title |-> body.docs[1].title,
          content |-> body.docs[1].body, tags |-> <<>>,
          createdAt |-> body.docs[1].createdAt, type |-> body.docs[1].type]
    ELSE [id |-> Null, title |-> <<>>, content |-> <<>>, tags |-> <<>>,
          createdAt |-> t, type |-> "markdown"]

\* the data field of a successful result
ResultData(op, body, t) ==
    CASE op = "list" ->
           [kind |-> "previews",
            items |-> [i \in 1..Len(Documents(body)) |->
                          DocumentPreview(Documents(body)[i])]]
      [] op = "load" -> [kind |-> "document", items |-> <<DocumentData(body, t)>>]
      [] op = "delete" -> NoData
      [] OTHER -> [kind |-> "raw", items |-> <<body>>]

\* reading a field of null throws a TypeError: load reads result.id, list
\* reads the id of the element of [result]
MappingThrows(op, body) == op \in {"load", "list"} /\ body.shape = "null"

\* the catch block of an operation
OperationCatch(op, err) ==
    [settled |-> "fulfilled", success |-> FALSE, message |-> FailureMessage(op),
     error |-> err, data |-> NoData]

\* a mutant of OperationReturn: the result is built outside the try block
OperationReturnOutsideTry(op, body, t) ==
    IF MappingThrows(op, body)
    THEN [NoResult EXCEPT !.settled = "rejected"]
    ELSE [settled |-> "fulfilled", success |-> TRUE, message |-> SuccessMessage(op),
          error |-> "", data |-> ResultData(op, body, t)]

\* apiRequestWithFallback returned body at time t: the operation builds its
\* result inside the try block
OperationReturn(op, body, t) ==
    IF MappingThrows(op, body)
    THEN OperationCatch(op, "TypeError")
    ELSE [settled |-> "fulfilled", success |-> TRUE, message |-> SuccessMessage(op),
          error |-> "", data |-> ResultData(op, body, t)]

\* a mutant of apiRequestWithFallback's final error: it carries no message
BothFailedResultNoError(op) ==
    [OperationCatch(op, "") EXCEPT !.message = ""]

\* both requests threw: apiRequestWithFallback throws its own error
BothFailedResult(op) == OperationCatch(op, "All API endpoints are unavailable")

\* the value an operation returns: apiRequestWithFallback returned body at
\* time t, or threw
OperationResult(op, threw, body, t) ==
    IF threw THEN BothFailedResult(op) ELSE OperationReturn(op, body, t)

\* the arguments an operation is called with
ClientTitles == {<<>>, <<"T">>}

ClientContents == {MdHi, MdText}

\* an operation is invoked: it builds its options and apiRequestWithFallback
\* sends the primary request
ClientStart(c, op, arg, title, content) ==
    /\ calls[c].pc \in {"idle", "done"}
    /\ calls' = [calls EXCEPT ![c] =
                   [op |-> op, arg |-> arg, pc |-> "primary", primary |-> "none",
                    fallback |-> "none", inFlight |-> {"primary"},
                    options |-> RequestInit(op, arg, title, content, now),
                    requests |-> <<[at |-> now,
                                    fetch |-> Request("primary", Endpoint(op, arg),
                                        RequestInit(op, arg, title, content, now))]>>,
                    response |-> JsonNull, result |-> NoResult]]
    /\ UNCHANGED <<now, apiFrame>>

\* the primary request settles: return its body, or catch and send the same
\* request to the fallback host
ClientPrimarySettles(c, outcome) ==
    /\ calls[c].pc = "primary"
    /\ calls' = [calls EXCEPT ![c] =
                   IF apiRequestThrows(outcome)
                   THEN [@ EXCEPT !.pc = "fallback", !.primary = outcome.kind,
                                  !.inFlight = {"fallback"},
                                  !.requests = Append(@,
                                      [at |-> now,
                                       fetch |-> Request("fallback",
                                           Endpoint(calls[c].op, calls[c].arg),
                                           calls[c].options)])]
                   ELSE [@ EXCEPT !.pc = "done", !.primary = outcome.kind,
                                  !.inFlight = {}, !.response = outcome.body,
                                  !.result = OperationResult(calls[c].op, FALSE,
                                                             outcome.body, now)]]
    /\ UNCHANGED <<now, apiFrame>>

\* the fallback request settles: return its body, or throw the final error
ClientFallbackSettles(c, outcome) ==
    /\ calls[c].pc = "fallback"
    /\ calls' = [calls EXCEPT ![c] =
                   [@ EXCEPT !.pc = "done", !.fallback = outcome.kind, !.inFlight = {},
                             !.response = IF apiRequestThrows(outcome) THEN JsonNull
                                          ELSE outcome.body,
                             !.result = OperationResult(calls[c].op,
                                                        apiRequestThrows(outcome),
                                                        outcome.body, now)]]
    /\ UNCHANGED <<now, apiFrame>>

\* time passes while requests are in flight
ClientTick ==
    /\ now < MaxNow
    /\ now' = now + 1
    /\ UNCHANGED <<calls, apiFrame>>

\* the operations keep no state between invocations, so the client alone is
\* followed through the invocations of one caller, one after the other
FirstCall == CHOOSE c \in CallIds : \A d \in CallIds : c <= d

\* save takes no id; the other operations take an id or a limit
ClientArgs(op) == IF op = "save" THEN {Null} ELSE 1..MaxArg

NextApi ==
    \/ \E op \in ClientOps, title \in ClientTitles, content \in ClientContents :
          \E arg \in ClientArgs(op) : ClientStart(FirstCall, op, arg, title, content)
    \/ \E outcome \in Outcomes : ClientPrimarySettles(FirstCall, outcome)
    \/ \E outcome \in Outcomes : ClientFallbackSettles(FirstCall, outcome)
    \/ ClientTick

SpecApi == Init /\ [][NextApi]_vars

(***************************************************************************)
(* C10: for every invocation of a client operation, the fallback host is   *)
(* contacted only after the primary request of that invocation has failed  *)
(* with a network error or a non-2xx response, and the two requests of one *)
(* invocation are never in flight together.                                *)
(***************************************************************************)
C10_FallbackOnlyAfterPrimaryFailure ==
    \A c \in CallIds :
        /\ Cardinality(calls[c].inFlight) <= 1
        /\ Len(calls[c].requests) = 2 =>
              calls[c].primary \in {"networkError", "non2xx"}

\* the ways a request fails: the fetch promise rejects or the response is not 2xx
FailedKinds == {"networkError", "non2xx"}

(***************************************************************************)
(* C11: an operation that has settled reports success = FALSE only if both *)
(* its primary and its fallback request failed; whenever one of the two    *)
(* hosts answered with a successful response, it reports success = TRUE.   *)
(***************************************************************************)
C11_FailureOnlyIfBothFailed ==
    \A c \in CallIds :
        (calls[c].pc = "done" /\ ~calls[c].result.success) =>
            (calls[c].primary \in FailedKinds /\ calls[c].fallback \in FailedKinds)

(***************************************************************************)
(* C12: when both the primary and the fallback request of an invocation    *)
(* fail, the operation settles with success = FALSE, a non-empty message   *)
(* and the error text 'All API endpoints are unavailable', after exactly   *)
(* one request to each host.                                               *)
(***************************************************************************)
C12_BothFailedResult ==
    \A c \in CallIds :
        (calls[c].pc = "done" /\ calls[c].primary \in FailedKinds
                              /\ calls[c].fallback \in FailedKinds) =>
            /\ calls[c].result.settled = "fulfilled"
            /\ ~calls[c].result.success
            /\ calls[c].result.message # ""
            /\ calls[c].result.error = "All API endpoints are unavailable"
            /\ Len(calls[c].requests) = 2
            /\ calls[c].requests[1].fetch.url[1] = API_CONFIG.primary.baseUrl
            /\ calls[c].requests[2].fetch.url[1] = API_CONFIG.fallback.baseUrl

\* an invocation whose primary request met a network error and whose
\* fallback request met a non-2xx response has settled
C12_Witness ==
    \E c \in CallIds :
        /\ calls[c].pc = "done"
        /\ calls[c].primary = "networkError"
        /\ calls[c].fallback = "non2xx"
        /\ ~calls[c].result.success

(***************************************************************************)
(* C14: within one invocation the fallback request has the same path and   *)
(* query, method, headers and body as the primary request, the time stamp  *)
(* in the body included, which is the time of the invocation; only the     *)
(* host differs.                                                           *)
(***************************************************************************)
C14_FallbackRequestSameAsPrimary ==
    \A c \in CallIds :
        Len(calls[c].requests) = 2 =>
            LET first == calls[c].requests[1]
                second == calls[c].requests[2]
            IN /\ Tail(second.fetch.url) = Tail(first.fetch.url)
               /\ second.fetch.method = first.fetch.method
               /\ second.fetch.headers = first.fetch.headers
               /\ second.fetch.body = first.fetch.body
               /\ second.fetch.url[1] # first.fetch.url[1]
               /\ \A i \in 1..Len(second.fetch.body) : second.fetch.body[i].at = first.at

\* a save whose fallback request was sent at a later time than its primary one
C14_Witness ==
    \E c \in CallIds :
        /\ calls[c].op = "save"
        /\ Len(calls[c].requests) = 2
        /\ calls[c].requests[2].at > calls[c].requests[1].at
        /\ calls[c].requests[2].fetch.body # <<>>

(***************************************************************************)
(* C15: when the primary host answers the DELETE of a delete operation     *)
(* with a 2xx response that has no body or a non-JSON one, the fallback    *)
(* host is not contacted and the operation reports success = TRUE.         *)
(***************************************************************************)
C15_DeleteWithoutBodySucceeds ==
    \A c \in CallIds :
        (calls[c].op = "delete" /\ calls[c].primary = "okNoJson") =>
            /\ Len(calls[c].requests) = 1
            /\ calls[c].pc = "done" => calls[c].result.success

(***************************************************************************)
(* The cloud orchestrator (useCloudSync).  Each of its five operations     *)
(* sets isLoading and clears the error, awaits the client operation of the *)
(* same kind, and continues with the result.  The continuation runs as one *)
(* step: React applies the state updates it makes together.                *)
(***************************************************************************)

\* the result a client operation settles with at time t, from the outcomes of
\* its primary request and, when that one throws, of its fallback request
ClientOperation(op, primary, fallback, t) ==
    IF apiRequestThrows(primary)
    THEN OperationResult(op, apiRequestThrows(fallback), fallback.body, t)
    ELSE OperationResult(op, FALSE, primary.body, t)

\* the results a client operation can settle with at time t, over the outcomes
\* of its two requests
ClientResults(op, t) ==
    {ClientOperation(op, primary, fallback, t) :
        primary \in Outcomes, fallback \in Outcomes}

\* result.message || 'Failed to ...'
MessageOrDefault(op, message) ==
    IF message # "" THEN message
    ELSE CASE op = "save" -> "Failed to save to cloud"
           [] op = "load" -> "Failed to load from cloud"
           [] op = "list" -> "Failed to list cloud documents"
           [] op = "delete" -> "Failed to delete from cloud"
           [] op = "update" -> "Failed to update cloud document"

\* the message of the catch block
NetworkErrorMessage(op) ==
    CASE op = "save" -> "Network error: Unable to save to cloud"
      [] op = "load" -> "Network error: Unable to load from cloud"
      [] op = "list" -> "Network error: Unable to fetch cloud documents"
      [] op = "delete" -> "Network error: Unable to delete from cloud"
      [] op = "update" -> "Network error: Unable to update cloud document"

\* a mutant of CloudDocumentsAfter: a list is merged into the known documents
CloudDocumentsAfterMerging(op, arg, r, docs) ==
    IF op = "list" THEN docs \o r.data.items
    ELSE IF op = "delete" THEN SelectSeq(docs, LAMBDA doc : doc.id # arg)
    ELSE docs

\* a mutant of CloudDocumentsAfter: a delete keeps the known documents
CloudDocumentsAfterKeepingDeleted(op, arg, r, docs) ==
    IF op = "list" THEN r.data.items ELSE docs

\* cloudDocuments after the successful result r of an operation: a list
\* replaces it, a delete filters it, the other operations leave it
CloudDocumentsAfter(op, arg, r, docs) ==
    IF op = "list" THEN r.data.items
    ELSE IF op = "delete" THEN SelectSeq(docs, LAMBDA doc : doc.id # arg)
    ELSE docs

\* a mutant of Completion: isLoading is reset on the success path only
CompletionWithoutFinally(op, arg, r, t, st) ==
    IF r.settled = "rejected"
    THEN [st EXCEPT !.error = <<NetworkErrorMessage(op)>>]
    ELSE IF r.success
    THEN [st EXCEPT !.cloudDocuments = CloudDocumentsAfter(op, arg, r, @),
                    !.lastSyncTime = t, !.isLoading = FALSE]
    ELSE [st EXCEPT !.error = <<MessageOrDefault(op, r.message)>>]

\* a mutant of Completion: a failed operation stamps the sync time as well
CompletionStampingFailures(op, arg, r, t, st) ==
    IF r.settled = "rejected"
    THEN [st EXCEPT !.error = <<NetworkErrorMessage(op)>>, !.lastSyncTime = t,
                    !.isLoading = FALSE]
    ELSE IF r.success
    THEN [st EXCEPT !.cloudDocuments = CloudDocumentsAfter(op, arg, r, @),
                    !.lastSyncTime = t, !.isLoading = FALSE]
    ELSE [st EXCEPT !.error = <<MessageOrDefault(op, r.message)>>,
                    !.lastSyncTime = t, !.isLoading = FALSE]

\* a mutant of Completion: only a list stamps the sync time
CompletionStampingListsOnly(op, arg, r, t, st) ==
    IF r.settled = "rejected"
    THEN [st EXCEPT !.error = <<NetworkErrorMessage(op)>>, !.isLoading = FALSE]
    ELSE IF r.success
    THEN [st EXCEPT !.cloudDocuments = CloudDocumentsAfter(op, arg, r, @),
                    !.lastSyncTime = IF op = "list" THEN t ELSE @,
                    !.isLoading = FALSE]
    ELSE [st EXCEPT !.error = <<MessageOrDefault(op, r.message)>>,
                    !.isLoading = FALSE]

\* the hook's state after the continuation of an operation whose client
\* operation settled with r at time t: try, catch and finally
Completion(op, arg, r, t, st) ==
    IF r.settled = "rejected"
    THEN [st EXCEPT !.error = <<NetworkErrorMessage(op)>>, !.isLoading = FALSE]
    ELSE IF r.success
    THEN [st EXCEPT !.cloudDocuments = CloudDocumentsAfter(op, arg, r, @),
                    !.lastSyncTime = t, !.isLoading = FALSE]
    ELSE [st EXCEPT !.error = <<MessageOrDefault(op, r.message)>>,
                    !.isLoading = FALSE]

\* the value the operation's promise resolves with
OrchestratorReturn(op, r) ==
    IF r.settled = "rejected"
    THEN [settled |-> "fulfilled", success |-> FALSE,
          message |-> NetworkErrorMessage(op), error |-> "", data |-> NoData]
    ELSE r

\* handleLoadFromCloud passes the content of a loaded document to the page,
\* which makes it the editor content; no other handler touches it
EditorContentAfter(op, ret, content) ==
    IF op = "load" /\ ret.success THEN ret.data.items[1].content ELSE content

\* save and list take no document id.  Only a delete uses its id after the
\* client operation has settled, so load and update are followed for one id
SyncArgs(op) ==
    IF op \in {"save", "list"} THEN {Null}
    ELSE IF op = "delete" THEN 1..MaxArg
    ELSE {1}

\* an operation is called: setIsLoading(true), setError(null), and the
\* client operation is started
SyncStart(op, arg) ==
    /\ BagCardinality(pendingOps) < MaxCalls
    /\ pendingOps' = pendingOps (+) SetToBag({[op |-> op, arg |-> arg]})
    /\ isLoading' = TRUE
    /\ error' = <<>>
    /\ UNCHANGED <<cloudDocuments, lastSyncTime, editorContent, lastSettled, now,
                   syncFrame>>

\* the record of a completed operation o: the client's result r and the value
\* ret the orchestrator returns
Settled(o, r, ret) ==
    [op |-> o.op, arg |-> o.arg, client |-> r.settled, settled |-> ret.settled,
     success |-> ret.success, message |-> ret.message,
     listed |-> IF o.op = "list" THEN ret.data.items ELSE <<>>]

\* the client operation of the pending operation o settles with r, and the
\* orchestrator's continuation runs
SyncSettles(o, r) ==
    /\ BagIn(o, pendingOps)
    /\ LET ret == OrchestratorReturn(o.op, r)
           st == Completion(o.op, o.arg, r, now,
                            [isLoading |-> isLoading, error |-> error,
                             cloudDocuments |-> cloudDocuments,
                             lastSyncTime |-> lastSyncTime])
       IN /\ pendingOps' = pendingOps (-) SetToBag({o})
          /\ isLoading' = st.isLoading
          /\ error' = st.error
          /\ cloudDocuments' = st.cloudDocuments
          /\ lastSyncTime' = st.lastSyncTime
          /\ editorContent' = EditorContentAfter(o.op, ret, editorContent)
          /\ lastSettled' = Settled(o, r, ret)
    /\ UNCHANGED <<now, syncFrame>>

\* clearError
SyncClearError ==
    /\ error # <<>>
    /\ error' = <<>>
    /\ UNCHANGED <<pendingOps, isLoading, cloudDocuments, lastSyncTime, editorContent,
                   lastSettled, now, syncFrame>>

NextSync ==
    \/ \E op \in ClientOps : \E arg \in SyncArgs(op) : SyncStart(op, arg)
    \/ \E o \in BagToSet(pendingOps) : \E r \in ClientResults(o.op, now) :
          SyncSettles(o, r)
    \/ SyncClearError
    \/ ClientTick

SpecSync == Init /\ [][NextSync]_vars

(***************************************************************************)
(* C13: every client operation and every orchestrator operation settles by *)
(* resolving with a result that has a boolean success and a message, for   *)
(* every outcome of the network: a network error, a non-2xx response, a    *)
(* malformed, empty or null body, and both hosts failing.  None rejects.   *)
(***************************************************************************)
C13_EveryOperationResolvesWithResult ==
    lastSettled.op # "none" =>
        /\ lastSettled.client = "fulfilled"
        /\ lastSettled.settled = "fulfilled"
        /\ lastSettled.success \in BOOLEAN
        /\ lastSettled.message # ""

\* a load has completed without success
C13_Witness ==
    /\ lastSettled.op = "load"
    /\ lastSettled.settled = "fulfilled"
    /\ ~lastSettled.success
    /\ error = <<"Failed to load document from API">>

(***************************************************************************)
(* C16: whenever at least one orchestrator operation is in flight,         *)
(* isLoading is TRUE, also when operations overlap and one of them settles *)
(* before the others.                                                      *)
(***************************************************************************)
C16_LoadingWhileInFlight == pendingOps # EmptyBag => isLoading

(***************************************************************************)
(* C17: isLoading is never stuck: once every operation that was started    *)
(* has settled, isLoading is FALSE.                                        *)
(***************************************************************************)
C17_NotLoadingWhenAllSettled == pendingOps = EmptyBag => ~isLoading

\* every operation has settled and the last one to settle failed
C17_Witness ==
    /\ pendingOps = EmptyBag
    /\ lastSettled.op # "none"
    /\ ~lastSettled.success
    /\ ~isLoading

(***************************************************************************)
(* C18: when an orchestrator operation completes without success, the      *)
(* error is set to a non-empty message, and cloudDocuments and             *)
(* lastSyncTime are left exactly as they were.                             *)
(***************************************************************************)
C18_FailureKeepsDocumentsAndSyncTime ==
    [][(/\ BagCardinality(pendingOps') < BagCardinality(pendingOps)
        /\ ~lastSettled'.success)
         => /\ error' # <<>>
            /\ error'[1] # ""
            /\ cloudDocuments' = cloudDocuments
            /\ lastSyncTime' = lastSyncTime]_vars

\* an operation has failed after an earlier list had succeeded
C18_Witness ==
    /\ lastSettled.op # "none"
    /\ ~lastSettled.success
    /\ error # <<>>
    /\ cloudDocuments # <<>>
    /\ lastSyncTime # Null
    /\ lastSyncTime < now

(***************************************************************************)
(* C19: after a successful list, cloudDocuments is exactly the sequence of *)
(* that response, the earlier value being replaced and not merged; when    *)
(* lists overlap, the value is that of the one that resolved last.         *)
(***************************************************************************)
C19_ListReplacesDocuments ==
    (lastSettled.op = "list" /\ lastSettled.success) =>
        cloudDocuments = lastSettled.listed

\* a list has succeeded with two entries while another list is in flight
C19_Witness ==
    /\ lastSettled.op = "list"
    /\ lastSettled.success
    /\ Len(lastSettled.listed) = 2
    /\ BagIn([op |-> "list", arg |-> Null], pendingOps)

(***************************************************************************)
(* C20: when deleteFromCloud(id) completes with success, no entry of       *)
(* cloudDocuments has that id any more, every other entry is kept in its   *)
(* place, and the editor content is not changed.                           *)
(***************************************************************************)
C20_DeleteRemovesOnlyThatDocument ==
    [][(/\ BagCardinality(pendingOps') < BagCardinality(pendingOps)
        /\ lastSettled'.op = "delete"
        /\ lastSettled'.success)
         => /\ \A i \in 1..Len(cloudDocuments') :
                  cloudDocuments'[i].id # lastSettled'.arg
            /\ \E kept \in SUBSET (1..Len(cloudDocuments)) :
                  /\ kept = {i \in 1..Len(cloudDocuments) :
                                cloudDocuments[i].id # lastSettled'.arg}
                  /\ Len(cloudDocuments') = Cardinality(kept)
                  /\ \A i \in kept :
                        cloudDocuments'[Cardinality({j \in kept : j <= i})]
                            = cloudDocuments[i]
            /\ editorContent' = editorContent]_vars

\* a delete has succeeded, another document is still known, and the editor
\* holds the content of a document loaded before
C20_Witness ==
    /\ lastSettled.op = "delete"
    /\ lastSettled.success
    /\ Len(cloudDocuments) = 1
    /\ cloudDocuments[1].id # lastSettled.arg
    /\ editorContent = MdHi

(***************************************************************************)
(* C21: every orchestrator operation that completes with success, of any   *)
(* kind, sets lastSyncTime to the time of its completion, and nothing else *)
(* changes lastSyncTime; so lastSyncTime is the completion time of the     *)
(* last operation that completed with success, or null.                    *)
(***************************************************************************)
C21_SyncTimeIsLastSuccess ==
    [][IF /\ BagCardinality(pendingOps') < BagCardinality(pendingOps)
          /\ lastSettled'.success
       THEN lastSyncTime' = now
       ELSE lastSyncTime' = lastSyncTime]_vars

\* a delete has just completed with success, later than the start of time
C21_Witness ==
    /\ lastSettled.op = "delete"
    /\ lastSettled.success
    /\ now > 1
    /\ lastSyncTime = now

(***************************************************************************)
(* The CloudSync panel: the component that calls the orchestrator from its *)
(* buttons and shows its error as a notification.                          *)
(***************************************************************************)

\* white space and line terminators, which String.prototype.trim removes
Whitespace == {" ", "\t", "\n"}

MdBlank == <<" ", "\n">>

\* the contents the editor holds when the panel is used
PanelContents == {Empty, MdBlank, MdHi}

RECURSIVE TrimStart(_)
TrimStart(str) ==
    IF str # <<>> /\ Head(str) \in Whitespace THEN TrimStart(Tail(str)) ELSE str

RECURSIVE TrimEnd(_)
TrimEnd(str) ==
    IF str # <<>> /\ str[Len(str)] \in Whitespace
    THEN TrimEnd(SubSeq(str, 1, Len(str) - 1))
    ELSE str

Trim(str) == TrimEnd(TrimStart(str))

\* a mutant of SaveRejected: the content is tested without trimming it
SaveRejectedWithoutTrim(currentContent) == currentContent = <<>>

\* !currentContent.trim()
SaveRejected(currentContent) == Trim(currentContent) = <<>>

ErrorNotification(message) == <<[type |-> "error", message |-> message]>>

\* the notification a handler sets after the successful result of its operation
SuccessNotification(op) ==
    <<[type |-> "success",
       message |-> CASE op = "save" -> "saved to cloud"
                     [] op = "load" -> "Loaded from cloud"
                     [] op = "delete" -> "Deleted from cloud"]>>

\* the effect with the dependencies [error, clearError], run after a render
\* in which error went from previous to current while note is the notification
\* the handlers left: the cleanup of its last run clears that run's timer, and
\* a non-null error is shown and a timer is set to clear it
ErrorEffect(ts, timer, previous, current, note) ==
    IF current = previous
    THEN [timers |-> ts, errorTimer |-> timer, notification |-> note]
    ELSE LET cleaned == IF timer # Null THEN clearTimeout(ts, timer) ELSE ts
             id == FreshId(cleaned, {timer})
         IN IF current # <<>>
            THEN [timers |-> setTimeout(cleaned, id, NotificationDelay, "error"),
                  errorTimer |-> id,
                  notification |-> ErrorNotification(current[1])]
            ELSE [timers |-> cleaned, errorTimer |-> Null, notification |-> note]

\* the panel's part of a step in which the orchestrator's error becomes
\* current and the handlers leave the notification note
PanelRenders(current, note) ==
    LET effect == ErrorEffect(timers, errorTimer, error, current, note)
    IN /\ timers' = effect.timers
       /\ errorTimer' = effect.errorTimer
       /\ notification' = effect.notification

\* the panel calls an orchestrator operation: setIsLoading(true),
\* setError(null), and the client operation is started
PanelStarts(op, arg) ==
    /\ BagCardinality(pendingOps) < MaxCalls
    /\ pendingOps' = pendingOps (+) SetToBag({[op |-> op, arg |-> arg]})
    /\ isLoading' = TRUE
    /\ error' = <<>>
    /\ PanelRenders(<<>>, notification)
    /\ UNCHANGED <<cloudDocuments, lastSyncTime, editorContent, lastSettled, now,
                   panelFrame>>

\* the Cloud button, the backdrop and the close button: setIsOpen; the effect
\* on isOpen lists the documents when the panel opens
PanelToggle ==
    /\ isOpen' = ~isOpen
    /\ panelEvent' = "toggle"
    /\ IF ~isOpen
       THEN PanelStarts("list", Null)
       ELSE UNCHANGED <<timers, syncVars, now, notification, errorTimer,
                        panelFrame>>

\* the Refresh button
PanelRefresh ==
    /\ isOpen /\ ~isLoading
    /\ panelEvent' = "refresh"
    /\ PanelStarts("list", Null)
    /\ UNCHANGED isOpen

\* handleSaveToCloud up to its await
PanelSave ==
    /\ isOpen /\ ~isLoading
    /\ panelEvent' = "save"
    /\ IF SaveRejected(editorContent)
       THEN /\ notification' = ErrorNotification("Cannot save empty document")
            /\ UNCHANGED <<timers, syncVars, now, errorTimer, panelFrame>>
       ELSE PanelStarts("save", Null)
    /\ UNCHANGED isOpen

\* handleLoadFromCloud up to its await, for a listed document
PanelLoad(id) ==
    /\ isOpen /\ ~isLoading
    /\ panelEvent' = "load"
    /\ PanelStarts("load", id)
    /\ UNCHANGED isOpen

\* handleDeleteFromCloud up to its await, for a listed document and a
\* confirmed dialog
PanelDelete(id) ==
    /\ isOpen /\ ~isLoading
    /\ panelEvent' = "delete"
    /\ PanelStarts("delete", id)
    /\ UNCHANGED isOpen

\* the client operation of the pending operation o settles with r: the
\* orchestrator's continuation runs and then the handler's that awaited it.
\* After a successful save the handler calls refreshCloudDocuments()
PanelSettles(o, r) ==
    /\ BagIn(o, pendingOps)
    /\ LET ret == OrchestratorReturn(o.op, r)
           st == Completion(o.op, o.arg, r, now,
                            [isLoading |-> isLoading, error |-> error,
                             cloudDocuments |-> cloudDocuments,
                             lastSyncTime |-> lastSyncTime])
           handled == ret.success /\ o.op \in {"save", "load", "delete"}
           refresh == ret.success /\ o.op = "save"
           current == IF refresh THEN <<>> ELSE st.error
       IN /\ pendingOps' =
                IF refresh
                THEN (pendingOps (-) SetToBag({o}))
                         (+) SetToBag({[op |-> "list", arg |-> Null]})
                ELSE pendingOps (-) SetToBag({o})
          /\ isLoading' = (refresh \/ st.isLoading)
          /\ error' = current
          /\ cloudDocuments' = st.cloudDocuments
          /\ lastSyncTime' = st.lastSyncTime
          /\ editorContent' = EditorContentAfter(o.op, ret, editorContent)
          /\ isOpen' = IF ret.success /\ o.op = "load" THEN FALSE ELSE isOpen
          /\ PanelRenders(current,
                          IF handled THEN SuccessNotification(o.op)
                          ELSE notification)
    /\ panelEvent' = "settle"
    /\ UNCHANGED <<lastSettled, now, panelFrame>>

\* the timer of the error effect fires: setNotification(null), clearError()
PanelTimerFire ==
    /\ \E t \in Due(timers) :
          /\ error' = <<>>
          /\ LET effect == ErrorEffect(timers \ {t}, errorTimer, error, <<>>, <<>>)
             IN /\ timers' = effect.timers
                /\ errorTimer' = effect.errorTimer
                /\ notification' = effect.notification
    /\ panelEvent' = "timer"
    /\ UNCHANGED <<pendingOps, isLoading, cloudDocuments, lastSyncTime,
                   editorContent, lastSettled, now, isOpen, panelFrame>>

\* a mutant of PanelEdit: every edit is also saved to the cloud
PanelEditSyncing(v) ==
    /\ v # editorContent
    /\ BagCardinality(pendingOps) < MaxCalls
    /\ editorContent' = v
    /\ panelEvent' = "edit"
    /\ pendingOps' = pendingOps (+) SetToBag({[op |-> "save", arg |-> Null]})
    /\ isLoading' = TRUE
    /\ UNCHANGED <<timers, error, cloudDocuments, lastSyncTime, lastSettled, now,
                   isOpen, notification, errorTimer, panelFrame>>

\* the user edits the document
PanelEdit(v) ==
    /\ v # editorContent
    /\ editorContent' = v
    /\ panelEvent' = "edit"
    /\ UNCHANGED <<timers, pendingOps, isLoading, error, cloudDocuments,
                   lastSyncTime, lastSettled, now, isOpen, notification,
                   errorTimer, panelFrame>>

\* time passes towards the deadline of the pending timer: a due timer fires
\* before any more of it does
PanelTick ==
    /\ timers # {} /\ Due(timers) = {}
    /\ timers' = Elapse(timers)
    /\ panelEvent' = "tick"
    /\ UNCHANGED <<syncVars, now, isOpen, notification, errorTimer, panelFrame>>

ListedIds == {cloudDocuments[i].id : i \in 1..Len(cloudDocuments)}

PanelSettlesSome ==
    \E o \in BagToSet(pendingOps) : \E r \in ClientResults(o.op, now) :
        PanelSettles(o, r)

NextPanel ==
    \/ PanelToggle
    \/ PanelRefresh
    \/ PanelSave
    \/ \E id \in ListedIds : PanelLoad(id)
    \/ \E id \in ListedIds : PanelDelete(id)
    \/ PanelSettlesSome
    \/ PanelTimerFire
    \/ \E v \in PanelContents : PanelEdit(v)
    \/ PanelTick

SpecPanel == Init /\ [][NextPanel]_vars

\* no user action is needed for time to pass, for a due timer to fire and for
\* a started client operation to settle
SpecPanelLive ==
    /\ SpecPanel
    /\ WF_vars(PanelTick)
    /\ WF_vars(PanelTimerFire)
    /\ WF_vars(PanelSettlesSome)

\* the notification shows an error of the orchestrator
ErrorShown ==
    /\ notification # <<>>
    /\ notification[1].type = "error"
    /\ notification[1].message # "Cannot save empty document"

(***************************************************************************)
(* C30: a cloud save requested while the editor content is empty or        *)
(* consists of white space only is rejected before any remote call: the    *)
(* error 'Cannot save empty document' is shown, and no orchestrator        *)
(* operation and no client call is started by that step.                   *)
(***************************************************************************)
C30_EmptySaveRejected ==
    [][(/\ panelEvent' = "save"
        /\ \A i \in 1..Len(editorContent) : editorContent[i] \in Whitespace)
       => /\ pendingOps' = pendingOps
          /\ isLoading' = isLoading
          /\ error' = error
          /\ calls' = calls
          /\ notification' = ErrorNotification("Cannot save empty document")]_vars

\* a save of a document of white space has been rejected
C30_Witness ==
    /\ panelEvent = "save"
    /\ editorContent = MdBlank
    /\ notification = ErrorNotification("Cannot save empty document")
    /\ pendingOps = EmptyBag
    /\ ~isLoading

(***************************************************************************)
(* C22: every error the orchestrator records is shown as an error          *)
(* notification and then cleared automatically: after an error appears,    *)
(* eventually lastError is null and no notification of an orchestrator     *)
(* error is shown, also when another operation is started before the       *)
(* display time has elapsed.                                               *)
(***************************************************************************)
C22_ErrorEventuallyCleared ==
    (error # <<>>) ~> (error = <<>> /\ ~ErrorShown)

(***************************************************************************)
(* C39: whenever no orchestrator operation is in flight, lastError is      *)
(* non-null only if the operation that completed last failed: an operation *)
(* that completes successfully last leaves no error of an earlier          *)
(* operation.                                                              *)
(***************************************************************************)
C39_ErrorOnlyOfLastFailure ==
    (pendingOps = EmptyBag /\ error # <<>>) =>
        (lastSettled.op # "none" /\ ~lastSettled.success)

(***************************************************************************)
(* C34: a list operation whose response is a single object returns a       *)
(* one-element sequence holding the preview of that object; when the       *)
(* response is a sequence it returns one preview per element, in the same  *)
(* order.                                                                  *)
(***************************************************************************)
C34_ListWrapsSingleObject ==
    \A c \in CallIds :
        (calls[c].op = "list" /\ calls[c].pc = "done" /\ calls[c].result.success) =>
            LET response == calls[c].response
                items == calls[c].result.data.items
            IN /\ response.shape \in {"object", "array"}
               /\ response.shape = "object" => Len(items) = 1
               /\ Len(items) = Len(response.docs)
               /\ \A i \in 1..Len(items) :
                     /\ items[i].id = response.docs[i].id
                     /\ items[i].title = response.docs[i].title
                     /\ items[i].preview = PreviewText(response.docs[i].body)

\* a list answered with the single object of document 2 has returned it
C34_Witness ==
    \E c \in CallIds :
        /\ calls[c].op = "list" /\ calls[c].pc = "done"
        /\ calls[c].response = JsonObject(ServerDoc(2))
        /\ Len(calls[c].result.data.items) = 1
        /\ calls[c].result.data.items[1].id = 2

(***************************************************************************)
(* C35: for every document of a successful list result, preview is the     *)
(* first 100 characters of the document's content followed by '...', for   *)
(* every length of the content, a shorter and an empty one included.       *)
(***************************************************************************)
C35_PreviewIsPrefixAndEllipsis ==
    \A c \in CallIds :
        (calls[c].op = "list" /\ calls[c].pc = "done" /\ calls[c].result.success) =>
            LET docs == calls[c].response.docs
                items == calls[c].result.data.items
            IN \A i \in 1..Len(items) :
                  LET content == docs[i].body
                      n == IF Len(content) < 100 THEN Len(content) ELSE 100
                  IN items[i].preview = SubSeq(content, 1, n) \o <<".", ".", ".">>

(***************************************************************************)
(* C36: a list operation called with a limit returns at most that many     *)
(* documents, whatever number of documents the endpoint returns.            *)
(***************************************************************************)
C36_ListReturnsAtMostLimit ==
    \A c \in CallIds :
        (calls[c].op = "list" /\ calls[c].pc = "done" /\ calls[c].result.success) =>
            Len(calls[c].result.data.items) <= calls[c].arg

(***************************************************************************)
(* The renderer alone: parseMarkdown is called with a value, and its two   *)
(* library calls succeed or throw.                                         *)
(***************************************************************************)
ParseAlphabet == {"a", "#", " ", "<"} \cup HtmlElements

ParseSources ==
    UNION {[1..n -> ParseAlphabet] : n \in 0..MaxTokens}

ParseInputs == {StringInput(md) : md \in ParseSources} \cup NonStringInputs

ParseCall(input, outcome) ==
    /\ LET returned == parseMarkdownWith(input, outcome)
       IN parsed' = [input |-> input, outcome |-> outcome,
                     raised |-> returned.raised, value |-> returned.value]
    /\ UNCHANGED parseFrame

NextParse == \E input \in ParseInputs, outcome \in ParseOutcomes : ParseCall(input, outcome)

SpecParse == Init /\ [][NextParse]_vars

\* the elements of an HTML value, its blocks and what they contain
Elements(html) ==
    {[tag |-> html[i].tag, attrs |-> {}] : i \in {j \in 1..Len(html) : html[j].tag # "#html"}}
        \cup UNION {{[tag |-> html[i].children[k].tag,
                      attrs |-> html[i].children[k].attrs] :
                         k \in 1..Len(html[i].children)} : i \in 1..Len(html)}

\* the input holds the token somewhere
Contains(input, token) ==
    input.type = "string" /\ \E i \in 1..Len(input.value) : input.value[i] = token

(***************************************************************************)
(* C32: every value parseMarkdown returns is the empty string, the fixed   *)
(* fallback fragment, or the output of the sanitizer applied to the parser *)
(* output; the raw parser output is never returned where the sanitizer     *)
(* changes it.                                                             *)
(***************************************************************************)
C32_OnlySanitizedReturned ==
    (parsed.outcome # "none" /\ ~parsed.raised) =>
        \/ parsed.value = <<>>
        \/ parsed.value = ErrorFragment
        \/ /\ parsed.input.type = "string"
           /\ parsed.value = sanitize(markedParse(parsed.input.value))
           /\ \A e \in Elements(parsed.value) :
                 /\ e.tag \in ALLOWED_TAGS \cup {"#text"}
                 /\ \A attr \in e.attrs : attr.family \notin {"event", "data"}

\* a source whose parser output the sanitizer changes has been rendered
C32_Witness ==
    /\ parsed.outcome = "ok"
    /\ parsed.input = StringInput(<<"a", ScriptElement>>)
    /\ parsed.value # markedParse(parsed.input.value)
    /\ parsed.value # <<>> /\ parsed.value # ErrorFragment

(***************************************************************************)
(* C33: parseMarkdown is total: it never raises; it returns the empty      *)
(* string for an empty or non-string input, and the fixed fallback         *)
(* fragment whenever parsing or sanitizing fails.                          *)
(***************************************************************************)
C33_ParseMarkdownTotal ==
    parsed.outcome # "none" =>
        /\ ~parsed.raised
        /\ (parsed.input.type # "string" \/ parsed.input.value = <<>>) =>
              parsed.value = <<>>
        /\ (/\ parsed.input.type = "string" /\ parsed.input.value # <<>>
            /\ parsed.outcome \in {"markedThrows", "sanitizeThrows"}) =>
              parsed.value =
                  <<[tag |-> "p",
                     children |-> <<[tag |-> "#text", attrs |-> {},
                                     text |-> <<"Error parsing markdown content.">>]>>]>>

\* the sanitizer threw on a source that is not empty
C33_Witness ==
    /\ parsed.outcome = "sanitizeThrows"
    /\ parsed.input = StringInput(<<"#", " ">>)
    /\ parsed.value = ErrorFragment
    /\ ~parsed.raised

\* the output holds no script element, no event handler and no data-*
\* attribute, and no element outside the allowed tags
NoScriptNoHandlerNoData ==
    \A e \in Elements(parsed.value) :
        /\ e.tag # "script"
        /\ e.tag \in ALLOWED_TAGS \cup {"#text"}
        /\ \A attr \in e.attrs : attr.family \notin {"event", "data"}

(***************************************************************************)
(* C37: for every input that holds <script>, an onerror= handler or a      *)
(* data-* attribute, the output of parseMarkdown holds no script element,  *)
(* no event handler attribute and no data-* attribute, and only tags and   *)
(* attributes of the allow-list.                                           *)
(***************************************************************************)
C37_OutputWithinAllowList ==
    (/\ parsed.outcome # "none"
     /\ \/ Contains(parsed.input, ScriptElement)
        \/ Contains(parsed.input, ImgElement)
        \/ Contains(parsed.input, DivElement)) =>
        /\ NoScriptNoHandlerNoData
        /\ \A e \in Elements(parsed.value) :
              \A attr \in e.attrs :
                 attr.name \in {"href", "title", "alt", "src", "id", "class",
                                "target", "rel"}

(***************************************************************************)
(* The Preview component under a parent that renders it once and then      *)
(* holds the markdown prop.  React runs a scheduled re-render, the browser *)
(* runs a due timer, and time passes.                                      *)
(***************************************************************************)
PreviewMount(md) ==
    /\ ~pvMounted
    /\ PreviewRender(md)

NextPreviewHeld ==
    \/ \E md \in MarkdownValues : PreviewMount(md)
    \/ PreviewRerender
    \/ PreviewTimerFire
    \/ PreviewTick

SpecPreviewHeld ==
    /\ Init /\ [][NextPreviewHeld]_vars
    /\ WF_vars(PreviewRerender)
    /\ WF_vars(PreviewTimerFire)
    /\ WF_vars(PreviewTick)

\* no render timer is pending, nothing is being loaded, no re-render is
\* scheduled and the displayed HTML is the render of the prop
PreviewQuiescent ==
    /\ timers = {}
    /\ ~pvIsLoading
    /\ ~pvDirty
    /\ htmlContent = parseMarkdown(markdown)

(***************************************************************************)
(* C38: with the markdown prop held at a non-empty value, the Preview      *)
(* component eventually reaches a quiescent state: no render timer         *)
(* pending, isLoading false and the displayed HTML equal to parseMarkdown  *)
(* of the prop.  Stated for the behaviours in which the pending timers     *)
(* stay below MaxTimers, the number the model follows.                     *)
(***************************************************************************)
C38_PreviewBecomesQuiescent ==
    (pvMounted /\ markdown # Empty) ~>
        (PreviewQuiescent \/ Cardinality(timers) >= MaxTimers)

\* the pending operations whose request writes to the remote store
RemoteWrites(ops) ==
    {o \in BagToSet(ops) : Method(o.op) \in {"POST", "PUT"}}

RECURSIVE CopiesOf(_, _)
CopiesOf(ops, set) ==
    IF set = {} THEN 0
    ELSE LET o == CHOOSE x \in set : TRUE
         IN CopiesIn(o, ops) + CopiesOf(ops, set \ {o})

(***************************************************************************)
(* C31: the document is sent to the remote store (POST or PUT) only by an  *)
(* explicit save of the user: a step that starts a remote write is the     *)
(* Save handler of the panel, and no edit, timer, time step, opening of    *)
(* the panel or completion of a list, load or delete starts one.           *)
(***************************************************************************)
C31_RemoteWriteOnlyOnSave ==
    [][CopiesOf(pendingOps', RemoteWrites(pendingOps'))
           > CopiesOf(pendingOps, RemoteWrites(pendingOps))
       => /\ panelEvent' = "save"
          /\ isOpen]_vars

\* the Save handler has started a save of the document
C31_Witness ==
    /\ panelEvent = "save"
    /\ editorContent = MdHi
    /\ RemoteWrites(pendingOps) # {}

====
